---- MODULE Spec2Model ----
(***************************************************************************)
(* Model of registration/models.py: the RegistrationProfile entity (status *)
(* property, activation key, expiry predicate) and the RegistrationManager *)
(* workflow operations (register, accept_registration, reject_registration,*)
(* activate_user, delete_expired_users, delete_rejected_users).            *)
(*                                                                         *)
(* Every manager method runs under @transaction_atomic and is therefore    *)
(* one action.  A profile handed to accept/reject is the row as stored in  *)
(* the database (profiles are addressed by primary key).  Time is counted  *)
(* in days; datetime_now() is the variable now, advanced by Tick.          *)
(***************************************************************************)
EXTENDS Integers, FiniteSets, Sequences, TLC

\* ---- bounds of the model ------------------------------------------------
MaxUsers == 1       \* accounts ever registered
MaxUsersOrphan == 2 \* accounts ever registered where account rows can vanish
MaxKeys == 2        \* activation keys ever generated
MaxTime == 3        \* last instant of the clock
ACCOUNT_ACTIVATION_DAYS == 2    \* settings.ACCOUNT_ACTIVATION_DAYS (positive)

\* ---- values -------------------------------------------------------------
NoKey == 0                       \* activation_key = None
PwNone == "<None>"               \* password argument None
UNUSABLE_PASSWORD == "!"         \* set_unusable_password()
RandomPassword == "<random>"     \* result of generate_random_password()
PasswordArgs == {PwNone, "", "secret"}
STATUS_LIST == {"untreated", "accepted", "rejected"}
None == <<>>                     \* return value None

VARIABLES
    users,          \* auth User rows: pk -> [is_active, date_joined, password]
    profiles,       \* RegistrationProfile rows: pk -> [user, _status, activation_key]
    now,            \* datetime_now()
    nextUser,       \* next primary key handed out by create_user
    keysIssued,     \* number of tokens generate_activation_key has returned
    lastOp,         \* the call that was just executed, with what it read
    ret,            \* its return value
    raised,         \* the exception it propagated ("" if none)
    outbox,         \* the mails it sent
    everAccepted,   \* history: accounts whose profile was ever set accepted
    activatedKeys,  \* history: keys of the successful activations
    consumedKeys    \* history: keys whose activation deleted the profile

vars == <<users, profiles, now, nextUser, keysIssued, lastOp, ret, raised,
          outbox, everAccepted, activatedKeys, consumedKeys>>

Restrict(f, S) == [x \in S |-> f[x]]

Call(op, pk, key, force, npd, pre) ==
    [op |-> op, pk |-> pk, key |-> key, force |-> force,
     no_profile_delete |-> npd, pre |-> pre]

\* ---- RegistrationProfile ------------------------------------------------

\* variant: the boundary instant is not yet counted as expired
activation_key_expired_strict(p, us, t) ==
    IF p._status # "accepted"
    THEN FALSE
    ELSE us[p.user].date_joined + ACCOUNT_ACTIVATION_DAYS < t

\* variant: the key counts as expired only at the instant the window ends
activation_key_expired_instant(p, us, t) ==
    IF p._status # "accepted"
    THEN FALSE
    ELSE us[p.user].date_joined + ACCOUNT_ACTIVATION_DAYS = t

\* activation_key_expired(self)
activation_key_expired(p, us, t) ==
    IF p._status # "accepted"
    THEN FALSE
    ELSE us[p.user].date_joined + ACCOUNT_ACTIVATION_DAYS <= t

\* variant: the property returns the stored field without the expiry test
_get_status_persisted(p, us, t) == p._status

\* _get_status(self): the status as read through the property
_get_status(p, us, t) ==
    IF activation_key_expired(p, us, t) THEN "expired" ELSE p._status

\* variant: the assignment self._status = value is lost
_set_status_unassigned(p, u, value, t, key) ==
    IF value = "accepted" /\ p.activation_key = NoKey
    THEN [profile |-> [p EXCEPT !.activation_key = key],
          user |-> [u EXCEPT !.date_joined = t],
          generated |-> TRUE]
    ELSE IF value # "accepted" /\ p.activation_key # NoKey
    THEN [profile |-> [p EXCEPT !.activation_key = NoKey],
          user |-> u, generated |-> FALSE]
    ELSE [profile |-> p, user |-> u, generated |-> FALSE]

\* self.user on a profile whose account row is missing raises
\* ObjectDoesNotExist
has_user(p, us) == p.user \in DOMAIN us

\* activation_key_expired (and so the status getter) dereferences self.user
\* as soon as _status is 'accepted'
expiry_raises(p, us) == p._status = "accepted" /\ ~has_user(p, us)

\* variant: the branch that removes the key is lost
_set_status_keep_key(p, u, value, t, key) ==
    LET p1 == [p EXCEPT !._status = value] IN
    IF value = "accepted" /\ p1.activation_key = NoKey
    THEN [profile |-> [p1 EXCEPT !.activation_key = key],
          user |-> [u EXCEPT !.date_joined = t],
          generated |-> TRUE]
    ELSE [profile |-> p1, user |-> u, generated |-> FALSE]

\* variant: accepted always generates a key, also over an existing one
_set_status_always_generate(p, u, value, t, key) ==
    LET p1 == [p EXCEPT !._status = value] IN
    IF value = "accepted"
    THEN [profile |-> [p1 EXCEPT !.activation_key = key],
          user |-> [u EXCEPT !.date_joined = t],
          generated |-> TRUE]
    ELSE IF value # "accepted" /\ p1.activation_key # NoKey
    THEN [profile |-> [p1 EXCEPT !.activation_key = NoKey],
          user |-> u, generated |-> FALSE]
    ELSE [profile |-> p1, user |-> u, generated |-> FALSE]

\* variant: the setter stores the status as the getter reads it at that
\* moment instead of the assigned value
_set_status_store_read(p, u, value, t, key) ==
    LET p0 == [p EXCEPT !._status = value]
        p1 == [p EXCEPT !._status =
                  IF value = "accepted"
                     /\ u.date_joined + ACCOUNT_ACTIVATION_DAYS <= t
                  THEN "expired" ELSE value]
    IN
    IF value = "accepted" /\ p0.activation_key = NoKey
    THEN [profile |-> [p1 EXCEPT !.activation_key = key],
          user |-> [u EXCEPT !.date_joined = t],
          generated |-> TRUE]
    ELSE IF value # "accepted" /\ p0.activation_key # NoKey
    THEN [profile |-> [p1 EXCEPT !.activation_key = NoKey],
          user |-> u, generated |-> FALSE]
    ELSE [profile |-> p1, user |-> u, generated |-> FALSE]

\* _set_status(self, value): the profile and its user after the assignment;
\* generated tells whether generate_activation_key was called (with result key)
_set_status(p, u, value, t, key) ==
    LET p1 == [p EXCEPT !._status = value] IN
    IF value = "accepted" /\ p1.activation_key = NoKey
    THEN [profile |-> [p1 EXCEPT !.activation_key = key],
          user |-> [u EXCEPT !.date_joined = t],
          generated |-> TRUE]
    ELSE IF value # "accepted" /\ p1.activation_key # NoKey
    THEN [profile |-> [p1 EXCEPT !.activation_key = NoKey],
          user |-> u, generated |-> FALSE]
    ELSE [profile |-> p1, user |-> u, generated |-> FALSE]

\* generate_activation_key(username): an opaque token that differs from
\* every token returned before (issued counts those)
generate_activation_key(issued) == issued + 1

\* _send_email(self, site, action, extra_context): the mail handed to send_mail
Mail(action, uid, extra) == [action |-> action, to |-> uid, extra |-> extra]

\* variant: the mail is built without the key
send_acceptance_email_no_key(p) == Mail("acceptance", p.user, NoKey)

\* send_acceptance_email(self, site, message): the context carries
\* self.activation_key
send_acceptance_email(p) == Mail("acceptance", p.user, p.activation_key)

\* ---- RegistrationManager ------------------------------------------------

\* variant: new_user.is_active = False is lost (create_user makes the
\* account active)
new_account_active(t) ==
    [is_active |-> TRUE, date_joined |-> t, password |-> UNUSABLE_PASSWORD]

\* create_user(...); set_unusable_password(); is_active = False; save()
new_account(t) ==
    [is_active |-> FALSE, date_joined |-> t, password |-> UNUSABLE_PASSWORD]

\* self.create(user=new_user): the field defaults of RegistrationProfile
new_profile(uid) ==
    [user |-> uid, _status |-> "untreated", activation_key |-> NoKey]

\* register(username, email, site, send_email), as long as fewer than
\* limit accounts have been registered
register_upto(limit, send_email) ==
    /\ nextUser <= limit
    /\ LET pk == nextUser
           new_user == new_account(now)
           profile == new_profile(pk)
       IN /\ users' = [x \in DOMAIN users \cup {pk} |->
                          IF x = pk THEN new_user ELSE users[x]]
          /\ profiles' = [x \in DOMAIN profiles \cup {pk} |->
                          IF x = pk THEN profile ELSE profiles[x]]
          /\ nextUser' = nextUser + 1
          /\ outbox' = IF send_email
                       THEN <<Mail("registration", pk, NoKey)>> ELSE <<>>
          /\ ret' = <<pk>>
          /\ lastOp' = Call("register", pk, NoKey, FALSE, FALSE, "none")
    /\ raised' = ""
    /\ UNCHANGED <<now, keysIssued, everAccepted, activatedKeys, consumedKeys>>

register(send_email) == register_upto(MaxUsers, send_email)

\* variant: a rejected registration cannot be accepted any more
accept_allowed_untreated_only(force, status) ==
    force \/ status = "untreated"

\* variant: the guard lets every profile through
accept_allowed_always(force, status) == TRUE

\* the guard of accept_registration: rejected -> accepted is allowed
accept_allowed(force, status) ==
    force \/ status \in {"untreated", "rejected"}

\* variant: force leaves the old key in place
accept_keep_key(p, force) == p

\* with force the key is removed so that _set_status creates a new one
accept_clear_key(p, force) ==
    IF force THEN [p EXCEPT !.activation_key = NoKey] ELSE p

\* accept_registration(profile, site, send_email, message, force); send_email
\* is only read once the guard has passed and is chosen there
accept_registration(pk, force) ==
    /\ pk \in DOMAIN profiles
    /\ LET profile == profiles[pk]
           status == _get_status(profile, users, now)
       IN IF ~has_user(profile, users)
          THEN \* the status getter, or else the setter (self.user.username),
               \* raises before anything is written
               /\ lastOp' = Call("accept", pk, profile.activation_key, force,
                                 FALSE, profile._status)
               /\ ret' = None /\ raised' = "ObjectDoesNotExist"
               /\ outbox' = <<>>
               /\ UNCHANGED <<users, profiles, keysIssued, everAccepted>>
          ELSE
          /\ lastOp' = Call("accept", pk, profile.activation_key, force,
                            FALSE, status)
          /\ raised' = ""
          /\ IF accept_allowed(force, status)
             THEN /\ keysIssued < MaxKeys
                  /\ \E send_email \in BOOLEAN :
                     LET r == _set_status(accept_clear_key(profile, force),
                                          users[profile.user], "accepted",
                                          now, generate_activation_key(keysIssued))
                     IN /\ profiles' = [profiles EXCEPT ![pk] = r.profile]
                        /\ users' = [users EXCEPT ![profile.user] = r.user]
                        /\ keysIssued' = IF r.generated THEN keysIssued + 1
                                      ELSE keysIssued
                        /\ outbox' = IF send_email
                                     THEN <<send_acceptance_email(r.profile)>>
                                     ELSE <<>>
                  /\ everAccepted' = everAccepted \cup {profile.user}
                  /\ ret' = <<profile.user>>
             ELSE /\ ret' = None
                  /\ outbox' = <<>>
                  /\ UNCHANGED <<users, profiles, keysIssued, everAccepted>>
    /\ UNCHANGED <<now, nextUser, activatedKeys, consumedKeys>>

\* variant: the guard compares with the wrong status
reject_allowed_rejected(status) == status = "rejected"

\* variant: the guard is missing
reject_allowed_always(status) == TRUE

\* variant: the guard only excludes profiles that read accepted
reject_allowed_not_accepted(status) == status # "accepted"

\* the guard of reject_registration: accepted -> rejected is not allowed
reject_allowed(status) == status = "untreated"

\* reject_registration(profile, site, send_email, message); send_email is
\* only read once the guard has passed and is chosen there
reject_registration(pk) ==
    /\ pk \in DOMAIN profiles
    /\ LET profile == profiles[pk]
           status == _get_status(profile, users, now)
       IN IF ~has_user(profile, users) /\ profile._status # "rejected"
          THEN \* the status getter (accepted) or the mail and `return
               \* profile.user` (untreated) raise; the save is rolled back
               /\ lastOp' = Call("reject", pk, profile.activation_key, FALSE,
                                 FALSE, profile._status)
               /\ ret' = None /\ raised' = "ObjectDoesNotExist"
               /\ outbox' = <<>>
               /\ UNCHANGED <<users, profiles>>
          ELSE
          /\ lastOp' = Call("reject", pk, profile.activation_key, FALSE,
                            FALSE, status)
          /\ raised' = ""
          /\ IF reject_allowed(status)
             THEN \E send_email \in BOOLEAN :
                  LET r == _set_status(profile, users[profile.user],
                                       "rejected", now,
                                       generate_activation_key(keysIssued))
                  IN /\ profiles' = [profiles EXCEPT ![pk] = r.profile]
                     /\ users' = [users EXCEPT ![profile.user] = r.user]
                     /\ outbox' = IF send_email
                                  THEN <<Mail("rejection", profile.user, NoKey)>>
                                  ELSE <<>>
                     /\ ret' = <<profile.user>>
             ELSE /\ ret' = None
                  /\ outbox' = <<>>
                  /\ UNCHANGED <<users, profiles>>
    /\ UNCHANGED <<now, nextUser, keysIssued, everAccepted, activatedKeys, consumedKeys>>

\* variant: the lookup filters on the key alone
get_by_key(ps, activation_key) ==
    {pk \in DOMAIN ps : ps[pk].activation_key = activation_key}

\* self.get(_status='accepted', activation_key=activation_key): matching rows
get_accepted(ps, activation_key) ==
    {pk \in DOMAIN ps : /\ ps[pk]._status = "accepted"
                        /\ ps[pk].activation_key = activation_key}

\* password or generate_random_password(...)
password_or_random(password) ==
    IF password \in {PwNone, ""} THEN RandomPassword ELSE password

\* variant: the profile is deleted whatever no_profile_delete says
delete_profile_always(ps, pk, no_profile_delete) ==
    Restrict(ps, DOMAIN ps \ {pk})

\* variant: the profile is never deleted
delete_profile_never(ps, pk, no_profile_delete) == ps

\* if not no_profile_delete: profile.delete()
delete_profile(ps, pk, no_profile_delete) ==
    IF ~no_profile_delete THEN Restrict(ps, DOMAIN ps \ {pk}) ELSE ps

\* activate_user(activation_key, site, password, send_email, message,
\*               no_profile_delete); password and send_email are only read
\* once the profile is found unexpired and are chosen there
activate_user(activation_key, no_profile_delete) ==
    LET found == get_accepted(profiles, activation_key) IN
    /\ now' = now
    /\ UNCHANGED <<nextUser, keysIssued, everAccepted>>
    /\ IF found = {}
       THEN \* DoesNotExist
            /\ lastOp' = Call("activate", 0, activation_key, FALSE,
                              no_profile_delete, "none")
            /\ ret' = None /\ raised' = "" /\ outbox' = <<>>
            /\ UNCHANGED <<users, profiles, activatedKeys, consumedKeys>>
       ELSE IF Cardinality(found) > 1
       THEN \* MultipleObjectsReturned propagates, the transaction rolls back
            /\ lastOp' = Call("activate", 0, activation_key, FALSE,
                              no_profile_delete, "none")
            /\ ret' = None /\ raised' = "MultipleObjectsReturned"
            /\ outbox' = <<>>
            /\ UNCHANGED <<users, profiles, activatedKeys, consumedKeys>>
       ELSE IF \E x \in found : expiry_raises(profiles[x], users)
       THEN \* activation_key_expired raises on the missing account
            /\ lastOp' = Call("activate", 0, activation_key, FALSE,
                              no_profile_delete, "accepted")
            /\ ret' = None /\ raised' = "ObjectDoesNotExist"
            /\ outbox' = <<>>
            /\ UNCHANGED <<users, profiles, activatedKeys, consumedKeys>>
       ELSE LET pk == CHOOSE x \in found : TRUE
                profile == profiles[pk]
            IN /\ lastOp' = Call("activate", pk, activation_key, FALSE,
                                 no_profile_delete,
                                 _get_status(profile, users, now))
               /\ raised' = ""
               /\ IF ~activation_key_expired(profile, users, now)
                  THEN \E password \in PasswordArgs, send_email \in BOOLEAN :
                       LET is_generated == (password = PwNone)
                           pw == password_or_random(password)
                       IN /\ users' = [users EXCEPT
                                         ![profile.user].password = pw,
                                         ![profile.user].is_active = TRUE]
                          /\ outbox' = IF send_email
                                       THEN <<Mail("activation", profile.user,
                                                   <<pw, is_generated>>)>>
                                       ELSE <<>>
                          /\ profiles' = delete_profile(profiles, pk,
                                                        no_profile_delete)
                          /\ activatedKeys' = activatedKeys \cup
                                                {activation_key}
                          /\ consumedKeys' = IF ~no_profile_delete
                                THEN consumedKeys \cup {activation_key}
                                ELSE consumedKeys
                          /\ ret' = <<profile.user, pw, is_generated>>
                  ELSE /\ ret' = None /\ outbox' = <<>>
                       /\ UNCHANGED <<users, profiles, activatedKeys, consumedKeys>>

\* variant: the sweep spares a key that expires at this very instant
expired_inactive_strict(ps, us, t) ==
    {pk \in DOMAIN ps : /\ ps[pk]._status = "accepted"
                        /\ us[ps[pk].user].date_joined
                              + ACCOUNT_ACTIVATION_DAYS < t
                        /\ ~us[ps[pk].user].is_active}

\* variant: the sweep does not look at is_active
expired_any(ps, us, t) ==
    {pk \in DOMAIN ps : activation_key_expired(ps[pk], us, t)}

\* the profiles delete_expired_users removes together with their users
expired_inactive(ps, us, t) ==
    {pk \in DOMAIN ps : /\ activation_key_expired(ps[pk], us, t)
                        /\ ~us[ps[pk].user].is_active}

\* delete_expired_users()
delete_expired_users ==
    /\ IF \E pk \in DOMAIN profiles : expiry_raises(profiles[pk], users)
       THEN \* profile.activation_key_expired() stands outside the try: the
            \* exception leaves the method and the transaction is rolled back
            /\ raised' = "ObjectDoesNotExist"
            /\ UNCHANGED <<users, profiles>>
       ELSE LET doomed == expired_inactive(profiles, users, now) IN
            /\ raised' = ""
            /\ users' = Restrict(users, DOMAIN users \
                                   {profiles[pk].user : pk \in doomed})
            /\ profiles' = Restrict(profiles, DOMAIN profiles \ doomed)
    /\ lastOp' = Call("delete_expired", 0, NoKey, FALSE, FALSE, "none")
    /\ ret' = None /\ outbox' = <<>>
    /\ UNCHANGED <<now, nextUser, keysIssued, everAccepted, activatedKeys, consumedKeys>>

\* the profiles delete_rejected_users removes, together with their users or,
\* when the user is missing (except ObjectDoesNotExist), alone
rejected_inactive(ps, us, t) ==
    {pk \in DOMAIN ps : /\ _get_status(ps[pk], us, t) = "rejected"
                        /\ has_user(ps[pk], us) => ~us[ps[pk].user].is_active}

\* delete_rejected_users()
delete_rejected_users ==
    /\ IF \E pk \in DOMAIN profiles : expiry_raises(profiles[pk], users)
       THEN \* profile.status stands outside the try: the exception leaves
            \* the method and the transaction is rolled back
            /\ raised' = "ObjectDoesNotExist"
            /\ UNCHANGED <<users, profiles>>
       ELSE LET doomed == rejected_inactive(profiles, users, now) IN
            /\ raised' = ""
            /\ users' = Restrict(users, DOMAIN users \
                                   {profiles[pk].user : pk \in doomed})
            /\ profiles' = Restrict(profiles, DOMAIN profiles \ doomed)
    /\ lastOp' = Call("delete_rejected", 0, NoKey, FALSE, FALSE, "none")
    /\ ret' = None /\ outbox' = <<>>
    /\ UNCHANGED <<now, nextUser, keysIssued, everAccepted, activatedKeys, consumedKeys>>

\* ---- failures inside a manager method ------------------------------------

\* variant: accept_registration has lost its decorator
decorated_without_accept(op) ==
    op \in {"register", "reject", "activate", "delete_expired",
            "delete_rejected"}

\* the manager methods that carry @transaction_atomic
decorated(op) ==
    op \in {"register", "accept", "reject", "activate", "delete_expired",
            "delete_rejected"}

\* transaction_atomic (registration.compat): what is stored once the
\* wrapped method, having written `written` over `before`, has raised
\* (failed) or returned
transaction_atomic(before, written, failed) ==
    IF failed THEN before ELSE written

\* what is stored after method op has raised part-way
stored_after_failure(op, before, written) ==
    IF decorated(op) THEN transaction_atomic(before, written, TRUE)
    ELSE written

\* the steps of the methods at which an exception of the persistence layer or
\* of the mailer can surface
RegisterSteps == {"create_profile", "send_mail"}
AcceptSteps == {"save", "send_mail"}
RejectSteps == {"save", "send_mail"}
ActivateSteps == {"user_save", "send_mail", "delete"}

\* register raising at step: the user row is written before self.create,
\* the profile row before send_registration_email
register_failing(step) ==
    /\ nextUser <= MaxUsers
    /\ LET pk == nextUser
           wu == [x \in DOMAIN users \cup {pk} |->
                     IF x = pk THEN new_account(now) ELSE users[x]]
           wp == IF step = "send_mail"
                 THEN [x \in DOMAIN profiles \cup {pk} |->
                         IF x = pk THEN new_profile(pk) ELSE profiles[x]]
                 ELSE profiles
       IN /\ users' = stored_after_failure("register", users, wu)
          /\ profiles' = stored_after_failure("register", profiles, wp)
          /\ nextUser' = IF pk \in DOMAIN users' THEN nextUser + 1
                         ELSE nextUser
          /\ lastOp' = Call("register", pk, NoKey, FALSE, FALSE, "none")
    /\ ret' = None /\ raised' = "Exception" /\ outbox' = <<>>
    /\ UNCHANGED <<now, keysIssued, everAccepted, activatedKeys, consumedKeys>>

\* accept_registration raising at step, the guard having passed: the user
\* row is written by the setter, the profile row by profile.save(); a token
\* that is not stored counts as never returned
accept_failing(pk, force, step) ==
    /\ pk \in DOMAIN profiles
    /\ LET profile == profiles[pk]
           status == _get_status(profile, users, now)
           r == _set_status(accept_clear_key(profile, force),
                            users[profile.user], "accepted", now,
                            generate_activation_key(keysIssued))
           wu == [users EXCEPT ![profile.user] = r.user]
           wp == IF step = "send_mail"
                 THEN [profiles EXCEPT ![pk] = r.profile] ELSE profiles
       IN /\ accept_allowed(force, status)
          /\ keysIssued < MaxKeys
          /\ users' = stored_after_failure("accept", users, wu)
          /\ profiles' = stored_after_failure("accept", profiles, wp)
          /\ keysIssued' = IF r.generated /\ profiles'[pk] = r.profile
                           THEN keysIssued + 1 ELSE keysIssued
          /\ everAccepted' = IF profiles'[pk]._status = "accepted"
                             THEN everAccepted \cup {profile.user}
                             ELSE everAccepted
          /\ lastOp' = Call("accept", pk, profile.activation_key, force,
                            FALSE, status)
    /\ ret' = None /\ raised' = "Exception" /\ outbox' = <<>>
    /\ UNCHANGED <<now, nextUser, activatedKeys, consumedKeys>>

\* reject_registration raising at step, the guard having passed
reject_failing(pk, step) ==
    /\ pk \in DOMAIN profiles
    /\ LET profile == profiles[pk]
           status == _get_status(profile, users, now)
           r == _set_status(profile, users[profile.user], "rejected", now,
                            generate_activation_key(keysIssued))
           wp == IF step = "send_mail"
                 THEN [profiles EXCEPT ![pk] = r.profile] ELSE profiles
       IN /\ reject_allowed(status)
          /\ profiles' = stored_after_failure("reject", profiles, wp)
          /\ lastOp' = Call("reject", pk, profile.activation_key, FALSE,
                            FALSE, status)
    /\ ret' = None /\ raised' = "Exception" /\ outbox' = <<>>
    /\ UNCHANGED <<users, now, nextUser, keysIssued, everAccepted,
                   activatedKeys, consumedKeys>>

\* activate_user raising at step, the profile having been found unexpired:
\* user.save() comes first, then the mail, then profile.delete()
activate_failing(activation_key, no_profile_delete, step) ==
    LET found == get_accepted(profiles, activation_key) IN
    /\ Cardinality(found) = 1
    /\ (step = "delete") => ~no_profile_delete
    /\ LET pk == CHOOSE x \in found : TRUE
           profile == profiles[pk]
       IN /\ ~activation_key_expired(profile, users, now)
          /\ \E password \in PasswordArgs :
                LET pw == password_or_random(password)
                    wu == IF step = "user_save" THEN users
                          ELSE [users EXCEPT ![profile.user].password = pw,
                                             ![profile.user].is_active = TRUE]
                IN /\ users' = stored_after_failure("activate", users, wu)
                   /\ outbox' = IF step = "delete"
                                THEN <<Mail("activation", profile.user,
                                            <<pw, password = PwNone>>)>>
                                ELSE <<>>
          /\ lastOp' = Call("activate", pk, activation_key, FALSE,
                            no_profile_delete,
                            _get_status(profile, users, now))
    /\ ret' = None /\ raised' = "Exception"
    /\ UNCHANGED <<profiles, now, nextUser, keysIssued, everAccepted,
                   activatedKeys, consumedKeys>>

\* the values assigned to the status property: the three of STATUS_LIST and
\* one more, which the CharField stores as well
SetterValues == STATUS_LIST \cup {"expired"}

\* profile.status = value; profile.save(): the property setter used directly
\* on a stored profile (outside the manager methods)
set_status(pk, value) ==
    /\ pk \in DOMAIN profiles
    /\ LET profile == profiles[pk]
           r == _set_status(profile, users[profile.user], value, now,
                            generate_activation_key(keysIssued))
       IN /\ r.generated => keysIssued < MaxKeys
          /\ profiles' = [profiles EXCEPT ![pk] = r.profile]
          /\ users' = [users EXCEPT ![profile.user] = r.user]
          /\ keysIssued' = IF r.generated THEN keysIssued + 1 ELSE keysIssued
          /\ everAccepted' = IF value = "accepted"
                             THEN everAccepted \cup {profile.user}
                             ELSE everAccepted
          /\ lastOp' = Call("set_status", pk, profile.activation_key, FALSE,
                            FALSE, _get_status(profile, users, now))
    /\ ret' = None /\ raised' = "" /\ outbox' = <<>>
    /\ UNCHANGED <<now, nextUser, activatedKeys, consumedKeys>>

\* the clock read by datetime_now() advances between calls
Tick ==
    /\ now < MaxTime
    /\ now' = now + 1
    /\ lastOp' = Call("tick", 0, NoKey, FALSE, FALSE, "none")
    /\ ret' = None /\ raised' = "" /\ outbox' = <<>>
    /\ UNCHANGED <<users, profiles, nextUser, keysIssued, everAccepted,
                   activatedKeys, consumedKeys>>

\* ---- specification ------------------------------------------------------

Init ==
    /\ users = <<>>
    /\ profiles = <<>>
    /\ now = 0
    /\ nextUser = 1
    /\ keysIssued = 0
    /\ lastOp = Call("init", 0, NoKey, FALSE, FALSE, "none")
    /\ ret = None
    /\ raised = ""
    /\ outbox = <<>>
    /\ everAccepted = {}
    /\ activatedKeys = {}
    /\ consumedKeys = {}

Next ==
    \/ \E send_email \in BOOLEAN : register(send_email)
    \/ \E pk \in 1..MaxUsers, force \in BOOLEAN :
          accept_registration(pk, force)
    \/ \E pk \in 1..MaxUsers : reject_registration(pk)
    \/ \E activation_key \in 0..MaxKeys, no_profile_delete \in BOOLEAN :
          activate_user(activation_key, no_profile_delete)
    \/ delete_expired_users
    \/ delete_rejected_users
    \/ Tick

Spec == Init /\ [][Next]_vars

\* the workflow operations (activation with the default profile deletion),
\* each of which may also raise part-way, and the clock
NextFail ==
    \/ \E send_email \in BOOLEAN : register(send_email)
    \/ \E pk \in 1..MaxUsers, force \in BOOLEAN :
          accept_registration(pk, force)
    \/ \E pk \in 1..MaxUsers : reject_registration(pk)
    \/ \E activation_key \in 0..MaxKeys : activate_user(activation_key, FALSE)
    \/ Tick
    \/ \E step \in RegisterSteps : register_failing(step)
    \/ \E pk \in 1..MaxUsers, force \in BOOLEAN, step \in AcceptSteps :
          accept_failing(pk, force, step)
    \/ \E pk \in 1..MaxUsers, step \in RejectSteps : reject_failing(pk, step)
    \/ \E activation_key \in 1..MaxKeys, step \in ActivateSteps :
          activate_failing(activation_key, FALSE, step)

SpecFail == Init /\ [][NextFail]_vars

\* registration, inspection and the clock together with direct assignments
\* to status
NextSetter ==
    \/ \E send_email \in BOOLEAN : register(send_email)
    \/ \E pk \in 1..MaxUsers, force \in BOOLEAN :
          accept_registration(pk, force)
    \/ \E pk \in 1..MaxUsers : reject_registration(pk)
    \/ Tick
    \/ \E pk \in 1..MaxUsers, value \in SetterValues : set_status(pk, value)

SpecSetter == Init /\ [][NextSetter]_vars

\* the manager operations with activate_user always called with the default
\* no_profile_delete = False
NextDefault ==
    \/ \E send_email \in BOOLEAN : register(send_email)
    \/ \E pk \in 1..MaxUsers, force \in BOOLEAN :
          accept_registration(pk, force)
    \/ \E pk \in 1..MaxUsers : reject_registration(pk)
    \/ \E activation_key \in 0..MaxKeys : activate_user(activation_key, FALSE)
    \/ delete_expired_users
    \/ delete_rejected_users
    \/ Tick

SpecDefault == Init /\ [][NextDefault]_vars

\* ---- profiles without account -------------------------------------------

\* The sweeps catch ObjectDoesNotExist on profile.user: the row of an
\* account can be gone while its profile is still stored (removed without
\* the cascade of user.delete()).  The call record keeps the status the
\* profile had at that moment.
orphan_account(pk) ==
    /\ pk \in DOMAIN profiles
    /\ has_user(profiles[pk], users)
    /\ users' = Restrict(users, DOMAIN users \ {profiles[pk].user})
    /\ lastOp' = Call("orphan_account", pk, profiles[pk].activation_key,
                      FALSE, FALSE, _get_status(profiles[pk], users, now))
    /\ ret' = None /\ raised' = "" /\ outbox' = <<>>
    /\ UNCHANGED <<profiles, now, nextUser, keysIssued, everAccepted,
                   activatedKeys, consumedKeys>>

NextOrphan ==
    \/ \E send_email \in BOOLEAN : register_upto(MaxUsersOrphan, send_email)
    \/ \E pk \in 1..MaxUsersOrphan : accept_registration(pk, FALSE)
    \/ \E pk \in 1..MaxUsersOrphan : reject_registration(pk)
    \/ \E pk \in 1..MaxUsersOrphan : orphan_account(pk)
    \/ delete_expired_users
    \/ delete_rejected_users
    \/ Tick

SpecOrphan == Init /\ [][NextOrphan]_vars

\* ---- properties ---------------------------------------------------------

\* the profile the last call was about is still stored
Target == lastOp.pk \in DOMAIN profiles
\* the row a step's call is about, in the state before the step
TargetBefore == lastOp'.pk \in DOMAIN profiles
NoDataChange == users' = users /\ profiles' = profiles

\* C1: in every reachable state every stored profile holds an activation
\* key if and only if its persisted status is accepted.
C1_KeyIffAccepted ==
    \A pk \in DOMAIN profiles :
        (profiles[pk].activation_key # NoKey) <=>
            (profiles[pk]._status = "accepted")

\* an activation that kept the profile has just succeeded: the profile of
\* the active account is still accepted and still holds its second key
C1_Witness ==
    /\ lastOp.op = "activate" /\ ret # None /\ Target
    /\ profiles[lastOp.pk]._status = "accepted"
    /\ profiles[lastOp.pk].activation_key = 2
    /\ users[profiles[lastOp.pk].user].is_active

\* C2: an account is created inactive and turns active only in an
\* activate_user step whose key is held by a profile of that account with
\* persisted status accepted and unexpired at that instant; that account
\* was accepted earlier in the trace.
C2_ActiveOnlyByActivation ==
    [][\A u \in DOMAIN users' :
        /\ (u \notin DOMAIN users) => ~users'[u].is_active
        /\ (u \in DOMAIN users /\ ~users[u].is_active /\ users'[u].is_active)
            => /\ lastOp'.op = "activate"
               /\ u \in everAccepted
               /\ \E pk \in DOMAIN profiles :
                    /\ profiles[pk].user = u
                    /\ profiles[pk]._status = "accepted"
                    /\ profiles[pk].activation_key = lastOp'.key
                    /\ lastOp'.key # NoKey
                    /\ users[u].date_joined + ACCOUNT_ACTIVATION_DAYS > now
      ]_vars

\* an activation has just succeeded on an account accepted before
C2_Witness ==
    /\ lastOp.op = "activate" /\ ret # None
    /\ ret[1] \in DOMAIN users /\ users[ret[1]].is_active
    /\ ret[1] \in everAccepted

\* C3: accept without force on a profile that is untreated or rejected
\* succeeds: the status then reads accepted, a key is present, the account's
\* join time is the current time and the account is returned.
C3_AcceptSucceeds ==
    (lastOp.op = "accept" /\ ~lastOp.force
        /\ lastOp.pre \in {"untreated", "rejected"})
    => /\ Target
       /\ profiles[lastOp.pk]._status = "accepted"
       /\ users[profiles[lastOp.pk].user].date_joined
             + ACCOUNT_ACTIVATION_DAYS > now
       /\ profiles[lastOp.pk].activation_key # NoKey
       /\ users[profiles[lastOp.pk].user].date_joined = now
       /\ ret = <<profiles[lastOp.pk].user>>

\* a rejected profile has just been accepted without force
C3_Witness ==
    /\ lastOp.op = "accept" /\ ~lastOp.force /\ lastOp.pre = "rejected"
    /\ ret # None /\ Target /\ profiles[lastOp.pk]._status = "accepted"

\* C4: accept without force on a profile whose persisted status is already
\* accepted, expired or not, returns None and changes neither the profile
\* (status, key) nor the account (join time, active flag).
C4_AcceptAcceptedNoOp ==
    [][(lastOp'.op = "accept" /\ ~lastOp'.force /\ TargetBefore
          /\ profiles[lastOp'.pk]._status = "accepted")
       => (ret' = None /\ NoDataChange)]_vars

\* a non-forced accept has just been refused on an expired profile
C4_Witness ==
    /\ lastOp.op = "accept" /\ ~lastOp.force /\ lastOp.pre = "expired"
    /\ ret = None /\ Target /\ profiles[lastOp.pk]._status = "accepted"

\* C5: accept with force succeeds whatever the status was: the old key is
\* discarded and a different one generated, the persisted status is
\* accepted, the join time is now, the profile does not read expired and
\* the previous key identifies no profile.
C5_ForceAccept ==
    (lastOp.op = "accept" /\ lastOp.force)
    => /\ Target
       /\ profiles[lastOp.pk]._status = "accepted"
       /\ profiles[lastOp.pk].activation_key # NoKey
       /\ profiles[lastOp.pk].activation_key # lastOp.key
       /\ users[profiles[lastOp.pk].user].date_joined = now
       /\ users[profiles[lastOp.pk].user].date_joined
             + ACCOUNT_ACTIVATION_DAYS > now
       /\ ret = <<profiles[lastOp.pk].user>>
       /\ (lastOp.key # NoKey =>
             \A q \in DOMAIN profiles :
                profiles[q].activation_key # lastOp.key)

\* a forced accept has just given an expired profile, which held a key, a
\* new activation window
C5_Witness ==
    /\ lastOp.op = "accept" /\ lastOp.force /\ lastOp.pre = "expired"
    /\ lastOp.key # NoKey /\ ret # None

\* C6: reject on a profile that reads untreated sets the persisted status
\* to rejected, leaves the key absent and the account inactive and
\* unchanged, and returns the account.
C6_RejectUntreated ==
    [][(lastOp'.op = "reject" /\ TargetBefore
          /\ profiles[lastOp'.pk]._status = "untreated")
       => /\ profiles' = [profiles EXCEPT ![lastOp'.pk]._status = "rejected"]
          /\ profiles'[lastOp'.pk].activation_key = NoKey
          /\ users' = users
          /\ ~users'[profiles[lastOp'.pk].user].is_active
          /\ ret' = <<profiles[lastOp'.pk].user>>]_vars

\* an untreated profile has just been rejected
C6_Witness ==
    /\ lastOp.op = "reject" /\ lastOp.pre = "untreated"
    /\ Target /\ profiles[lastOp.pk]._status = "rejected"
    /\ ret = <<profiles[lastOp.pk].user>>

\* C7: reject on a profile that is accepted, rejected or expired returns
\* None and changes neither the profile nor the account.
C7_RejectTreatedNoOp ==
    [][(lastOp'.op = "reject" /\ TargetBefore
          /\ profiles[lastOp'.pk]._status # "untreated")
       => (ret' = None /\ NoDataChange)]_vars

\* a reject has just been refused on an expired profile
C7_Witness ==
    /\ lastOp.op = "reject" /\ lastOp.pre = "expired" /\ ret = None
    /\ Target /\ profiles[lastOp.pk].activation_key # NoKey

\* C8: activate with the key of an accepted profile whose join time plus
\* the activation window is at or before the current time returns None and
\* changes no account and no profile.
C8_ActivateExpiredFails ==
    [][(lastOp'.op = "activate" /\ lastOp'.key # NoKey
          /\ \E pk \in DOMAIN profiles :
                /\ profiles[pk]._status = "accepted"
                /\ profiles[pk].activation_key = lastOp'.key
                /\ users[profiles[pk].user].date_joined
                      + ACCOUNT_ACTIVATION_DAYS <= now)
       => (ret' = None /\ raised' = "" /\ NoDataChange)]_vars

\* an activation has just been refused at the very instant the window ended
C8_Witness ==
    /\ lastOp.op = "activate" /\ lastOp.pre = "expired" /\ ret = None
    /\ Target
    /\ users[profiles[lastOp.pk].user].date_joined
          + ACCOUNT_ACTIVATION_DAYS = now
    /\ ~users[profiles[lastOp.pk].user].is_active

\* C9 as stated: every successful activate sets the account active and
\* deletes the profile, and every later activate with the same key returns
\* None and changes no account.
C9_Original ==
    [][/\ (lastOp'.op = "activate" /\ ret' # None)
            => /\ users'[ret'[1]].is_active
               /\ \A pk \in DOMAIN profiles' : profiles'[pk].user # ret'[1]
       /\ (lastOp'.op = "activate" /\ lastOp'.key \in activatedKeys)
            => (ret' = None /\ users' = users)
      ]_vars

\* C9 amended: a successful activate called without no_profile_delete sets
\* the account active and deletes the profile, and every later activate
\* with the same key returns None and changes no account and no profile.
C9_ActivateOnce ==
    [][/\ (lastOp'.op = "activate" /\ ret' # None
             /\ ~lastOp'.no_profile_delete)
            => /\ users'[ret'[1]].is_active
               /\ \A pk \in DOMAIN profiles' : profiles'[pk].user # ret'[1]
       /\ (lastOp'.op = "activate" /\ lastOp'.key \in consumedKeys)
            => (ret' = None /\ NoDataChange)
      ]_vars

\* a second activation with a key that has already activated its account
\* and lost its profile has just failed
C9_Witness ==
    /\ lastOp.op = "activate" /\ lastOp.key \in consumedKeys /\ ret = None
    /\ \E u \in DOMAIN users : users[u].is_active

\* C10: activate with a key that no profile of persisted status accepted
\* holds returns None, raises nothing and changes no account and no profile.
C10_ActivateUnknownKey ==
    [][(lastOp'.op = "activate"
          /\ ~\E pk \in DOMAIN profiles :
                /\ profiles[pk]._status = "accepted"
                /\ profiles[pk].activation_key = lastOp'.key)
       => (ret' = None /\ raised' = "" /\ NoDataChange)]_vars

\* an activation with the absent key has just failed while a rejected
\* profile, which holds no key, was stored
C10_Witness ==
    /\ lastOp.op = "activate" /\ lastOp.key = NoKey /\ ret = None
    /\ raised = ""
    /\ \E q \in DOMAIN profiles :
          profiles[q]._status = "rejected" /\ profiles[q].activation_key = NoKey

\* C11: after every successful activate the returned is_generated flag is
\* true exactly when the password set on the account is the generated one,
\* whatever password argument (absent, empty, given) was passed.
C11_GeneratedFlag ==
    (lastOp.op = "activate" /\ ret # None)
    => /\ users[ret[1]].password = ret[2]
       /\ ret[3] <=> (users[ret[1]].password = RandomPassword)

\* a stored profile whose key has expired and whose account is inactive
ExpiredInactive(ps, us, pk) ==
    /\ ps[pk]._status = "accepted"
    /\ us[ps[pk].user].date_joined + ACCOUNT_ACTIVATION_DAYS <= now
    /\ ~us[ps[pk].user].is_active

\* C12: delete_expired creates nothing and leaves unchanged every profile
\* that is not (expired with an inactive account), together with its
\* account, and every account that has no such profile, in particular
\* every active account.
C12_DeleteExpiredFrame ==
    [][lastOp'.op = "delete_expired"
       => /\ DOMAIN profiles' \subseteq DOMAIN profiles
          /\ DOMAIN users' \subseteq DOMAIN users
          /\ \A pk \in DOMAIN profiles :
                ~ExpiredInactive(profiles, users, pk)
                => /\ pk \in DOMAIN profiles'
                   /\ profiles'[pk] = profiles[pk]
          /\ \A u \in DOMAIN users :
                (users[u].is_active
                   \/ ~\E pk \in DOMAIN profiles :
                         profiles[pk].user = u
                         /\ ExpiredInactive(profiles, users, pk))
                => /\ u \in DOMAIN users'
                   /\ users'[u] = users[u]]_vars

\* the sweep has just run and spared an expired profile whose account is
\* active
C12_Witness ==
    /\ lastOp.op = "delete_expired"
    /\ \E pk \in DOMAIN profiles :
          /\ profiles[pk]._status = "accepted"
          /\ users[profiles[pk].user].date_joined
                + ACCOUNT_ACTIVATION_DAYS <= now
          /\ users[profiles[pk].user].is_active

\* C13: when delete_expired has completed, no stored profile is expired
\* with an inactive account, and every profile that was so is gone together
\* with its account.
C13_DeleteExpiredComplete ==
    [][(lastOp'.op = "delete_expired" /\ raised' = "")
       => /\ \A pk \in DOMAIN profiles' :
                ~(/\ profiles'[pk]._status = "accepted"
                  /\ profiles'[pk].user \in DOMAIN users'
                  /\ users'[profiles'[pk].user].date_joined
                        + ACCOUNT_ACTIVATION_DAYS <= now'
                  /\ ~users'[profiles'[pk].user].is_active)
          /\ \A pk \in DOMAIN profiles :
                (profiles[pk].user \in DOMAIN users
                   /\ ExpiredInactive(profiles, users, pk))
                => /\ pk \notin DOMAIN profiles'
                   /\ profiles[pk].user \notin DOMAIN users']_vars

\* the sweep has just removed the only registration, which had been
\* accepted and never activated
C13_Witness ==
    /\ lastOp.op = "delete_expired" /\ raised = ""
    /\ 1 \in everAccepted /\ activatedKeys = {}
    /\ 1 \notin DOMAIN users /\ 1 \notin DOMAIN profiles

\* the profiles the rejected sweep has to remove: persisted status rejected
\* and the account inactive or missing
RejectedInactive(ps, us, pk) ==
    /\ ps[pk]._status = "rejected"
    /\ has_user(ps[pk], us) => ~us[ps[pk].user].is_active

\* C14: delete_rejected removes exactly the rejected profiles whose account
\* is inactive (with the account) or missing, and leaves every other profile
\* and account as it was.
C14_DeleteRejectedExact ==
    [][lastOp'.op = "delete_rejected"
       => /\ \A pk \in DOMAIN profiles :
                IF RejectedInactive(profiles, users, pk)
                THEN /\ pk \notin DOMAIN profiles'
                     /\ profiles[pk].user \notin DOMAIN users'
                ELSE /\ pk \in DOMAIN profiles'
                     /\ profiles'[pk] = profiles[pk]
                     /\ has_user(profiles[pk], users)
                          => /\ has_user(profiles[pk], users')
                             /\ users'[profiles[pk].user]
                                   = users[profiles[pk].user]
          /\ DOMAIN profiles' \subseteq DOMAIN profiles]_vars

C17_EffectiveStatus ==
    \A pk \in DOMAIN profiles :
        LET p == profiles[pk]
            due == /\ p._status = "accepted"
                   /\ users[p.user].date_joined + ACCOUNT_ACTIVATION_DAYS <= now
        IN /\ (_get_status(p, users, now) = "expired") <=> due
           /\ ~due => _get_status(p, users, now) = p._status
           /\ activation_key_expired(p, users, now) <=> due
           /\ p._status \in {"untreated", "rejected"}
                 => ~activation_key_expired(p, users, now)

\* reject has just read the status of a profile at the very instant its
\* window ended, and read expired
C17_Witness ==
    /\ lastOp.op = "reject" /\ lastOp.pre = "expired" /\ Target
    /\ users[profiles[lastOp.pk].user].date_joined
          + ACCOUNT_ACTIVATION_DAYS = now
    /\ _get_status(profiles[lastOp.pk], users, now) = "expired"

\* C19: a profile whose persisted status is accepted keeps that status in
\* every step in which it stays stored, and stops being stored only in a
\* successful activate or in delete_expired.
C19_AcceptedNeverLeft ==
    [][\A pk \in DOMAIN profiles :
          profiles[pk]._status = "accepted"
          => IF pk \in DOMAIN profiles'
             THEN profiles'[pk]._status = "accepted"
             ELSE \/ lastOp'.op = "activate" /\ ret' # None
                  \/ lastOp'.op = "delete_expired"]_vars

\* reject has just been refused on a profile that reads accepted, which is
\* still accepted
C19_Witness ==
    /\ lastOp.op = "reject" /\ lastOp.pre = "accepted" /\ ret = None
    /\ Target /\ profiles[lastOp.pk]._status = "accepted"

\* C20: assigning through the status setter a value other than accepted to
\* a profile that holds a key clears the key, and afterwards the profile
\* again holds a key if and only if its persisted status is accepted.
C20_SetterClearsKey ==
    [][(lastOp'.op = "set_status" /\ TargetBefore
          /\ profiles[lastOp'.pk].activation_key # NoKey
          /\ profiles'[lastOp'.pk]._status # "accepted")
       => /\ profiles'[lastOp'.pk].activation_key = NoKey
          /\ users' = users
          /\ \A pk \in DOMAIN profiles' :
                (profiles'[pk].activation_key # NoKey)
                   <=> (profiles'[pk]._status = "accepted")]_vars

\* rejected has just been assigned to a profile that held a key
C20_Witness ==
    /\ lastOp.op = "set_status" /\ lastOp.key # NoKey /\ Target
    /\ profiles[lastOp.pk]._status = "rejected"
    /\ profiles[lastOp.pk].activation_key = NoKey

\* C18: when the account of a profile read as expired has gone and
\* delete_expired runs next, the sweep removes that profile and does not
\* raise.
C18_OrphanExpiredDeleted ==
    [][(lastOp.op = "orphan_account" /\ lastOp.pre = "expired"
          /\ lastOp'.op = "delete_expired")
       => /\ raised' = ""
          /\ lastOp.pk \notin DOMAIN profiles']_vars

\* C16: when register, accept, reject or activate raises at any of its
\* steps, the stored accounts and profiles are those from before the call.
C16_AllOrNothing ==
    [][(raised' # ""
          /\ lastOp'.op \in {"register", "accept", "reject", "activate"})
       => NoDataChange]_vars

\* an accept of an untreated profile has just raised: the profile is still
\* untreated without key and the account keeps its earlier join time
C16_Witness ==
    /\ raised # "" /\ lastOp.op = "accept" /\ lastOp.pre = "untreated"
    /\ Target /\ profiles[lastOp.pk]._status = "untreated"
    /\ profiles[lastOp.pk].activation_key = NoKey
    /\ users[profiles[lastOp.pk].user].date_joined < now

MailAction(op) ==
    CASE op = "register" -> "registration"
      [] op = "accept" -> "acceptance"
      [] op = "reject" -> "rejection"
      [] op = "activate" -> "activation"
      [] OTHER -> "none"

C23_PersistedStatus ==
    \A pk \in DOMAIN profiles :
        /\ profiles[pk]._status \in STATUS_LIST
        /\ _get_status(profiles[pk], users, now) = "expired"
             => profiles[pk]._status = "accepted"

\* a profile reads expired after a forced accept at an earlier time has
\* written its status once more
C23_Witness ==
    \E pk \in DOMAIN profiles :
        /\ _get_status(profiles[pk], users, now) = "expired"
        /\ profiles[pk]._status = "accepted"
        /\ profiles[pk].activation_key = 2
        /\ users[profiles[pk].user].date_joined > 0

\* the stored profiles of account u
ProfilesOf(u) == {pk \in DOMAIN profiles : profiles[pk].user = u}

\* C24: with activate always called with the default profile deletion,
\* every stored profile belongs to a stored account, every inactive account
\* has exactly one profile and every active account has none; so every
\* untreated or rejected profile belongs to an inactive account.
C24_ProfileIffInactive ==
    /\ \A pk \in DOMAIN profiles :
          /\ has_user(profiles[pk], users)
          /\ profiles[pk]._status \in {"untreated", "rejected"}
               => ~users[profiles[pk].user].is_active
    /\ \A u \in DOMAIN users :
          IF users[u].is_active
          THEN ProfilesOf(u) = {}
          ELSE Cardinality(ProfilesOf(u)) = 1

\* an activation has just made an account active, which is left without
\* profile
C24_Witness ==
    /\ lastOp.op = "activate" /\ ret # None /\ ~lastOp.no_profile_delete
    /\ users[ret[1]].is_active
    /\ ProfilesOf(ret[1]) = {}

\* the stored profiles through which activate_user would succeed with key k
\* at time t
Activatable(ps, us, t, k) ==
    {pk \in get_accepted(ps, k) : ~activation_key_expired(ps[pk], us, t)}

\* C25: a successful activate with no_profile_delete leaves the profile
\* stored as it was (accepted, same key); every activate with the key of an
\* accepted unexpired profile, a repeated one included, succeeds and stores
\* the returned password in the active account; and a key that has
\* activated stops working in a step only if the window ends in it, the
\* profile is force-accepted in it or the profile is deleted in it.
C25_KeptProfileReactivates ==
    [][/\ (lastOp'.op = "activate" /\ ret' # None
             /\ lastOp'.no_profile_delete)
            => /\ lastOp'.pk \in DOMAIN profiles'
               /\ profiles'[lastOp'.pk] = profiles[lastOp'.pk]
               /\ profiles'[lastOp'.pk]._status = "accepted"
               /\ profiles'[lastOp'.pk].activation_key = lastOp'.key
       /\ (lastOp'.op = "activate" /\ lastOp'.key # NoKey
             /\ Activatable(profiles, users, now, lastOp'.key) # {})
            => /\ ret' # None /\ raised' = ""
               /\ users'[ret'[1]].is_active
               /\ users'[ret'[1]].password = ret'[2]
               /\ ret'[2] # UNUSABLE_PASSWORD
       /\ (lastOp.op = "activate" /\ ret # None /\ lastOp.no_profile_delete
             /\ lastOp'.op = "activate" /\ lastOp'.key = lastOp.key)
            => ret' # None
       /\ \A k \in activatedKeys :
             \A pk \in Activatable(profiles, users, now, k) :
                Activatable(profiles', users', now', k) = {}
                => \/ /\ lastOp'.op = "tick"
                      /\ activation_key_expired(profiles[pk], users, now')
                   \/ /\ lastOp'.op = "accept" /\ lastOp'.force
                      /\ lastOp'.pk = pk
                   \/ pk \notin DOMAIN profiles'
      ]_vars

\* an activation with no_profile_delete has just succeeded with a chosen
\* password on a later day than the acceptance: the profile is stored,
\* accepted, with the key that was used
C25_Witness ==
    /\ lastOp.op = "activate" /\ lastOp.no_profile_delete /\ ret # None
    /\ Target
    /\ profiles[lastOp.pk]._status = "accepted"
    /\ profiles[lastOp.pk].activation_key = lastOp.key
    /\ users[ret[1]].password = "secret"
    /\ users[ret[1]].date_joined < now
    /\ Activatable(profiles, users, now, lastOp.key) = {lastOp.pk}

\* C26: a profile that reads expired reads expired after every step in
\* which it stays stored, except a forced accept of that profile, after
\* which it reads accepted with the join time set to the current time; and
\* it stops being stored only in delete_expired.
C26_ExpiryPermanent ==
    [][\A pk \in DOMAIN profiles :
          _get_status(profiles[pk], users, now) = "expired"
          => IF pk \in DOMAIN profiles'
             THEN \/ _get_status(profiles'[pk], users', now') = "expired"
                  \/ /\ lastOp'.op = "accept" /\ lastOp'.force
                     /\ lastOp'.pk = pk
                     /\ _get_status(profiles'[pk], users', now') = "accepted"
                     /\ users'[profiles'[pk].user].date_joined = now'
             ELSE lastOp'.op = "delete_expired"]_vars

\* delete_rejected has just run over a profile that reads expired and is
\* still stored, more than a day after its window ended
C26_Witness ==
    /\ lastOp.op = "delete_rejected"
    /\ \E pk \in DOMAIN profiles :
          /\ _get_status(profiles[pk], users, now) = "expired"
          /\ users[profiles[pk].user].date_joined
                + ACCOUNT_ACTIVATION_DAYS < now

====
